---------------------------- MODULE Spec2Model ----------------------------
(***************************************************************************)
(* Model of dependabot-cron-action (src/index.ts): one pass of run() over  *)
(* the open pull requests of a repository, with the pure helpers           *)
(* getAutoMerge, getMergeMethod and getSemver.                             *)
(*                                                                         *)
(* Strings are TLA+ strings (sequences of characters); a character is a    *)
(* string of length 1.  JavaScript's null / undefined is the value Null.   *)
(***************************************************************************)
EXTENDS Integers, Sequences, FiniteSets, TLC

VARIABLES
    remote,        \* the repository on GitHub: for each commit, the check runs
                   \* (their conclusions) and the commit statuses it reports
    pc,            \* where run() is: "start", "list_wait", "checks_wait",
                   \* "statuses_wait", "approve_wait", "merge_wait", "done",
                   \* "failed"
    token,         \* run(): const token (index.ts:116)
    autoMerge,     \* run(): const autoMerge (index.ts:124)
    mergeMethod,   \* run(): const mergeMethod (index.ts:125)
    autoMergeInput,    \* getInput('auto-merge') as read at index.ts:124
    mergeMethodInput,  \* getInput('merge-method') as read at index.ts:125
    prAuthor,      \* run(): const prAuthor (index.ts:122)
    openPRs,       \* the data of the pulls.list response (index.ts:128)
    pullRequests,  \* run(): const pullRequests (index.ts:127-129)
    idx,           \* position of the for-of loop in pullRequests (index.ts:133)
    prTitle,       \* run(): const prTitle (index.ts:135)
    checkRuns,     \* run(): checkRuns.data.check_runs, as conclusions (index.ts:139)
    statuses,      \* run(): statuses.data (index.ts:154)
    versionBump,   \* run(): const versionBump (index.ts:172)
    calls,         \* the remote calls issued so far, in order, with their outcome
    setFailed,     \* the message given to setFailed (index.ts:21), Null if none
    console        \* the lines info() has printed (index.ts:16), in order; the
                   \* debug input is not set

vars == <<remote, pc, token, autoMerge, mergeMethod, autoMergeInput,
          mergeMethodInput, prAuthor, openPRs, pullRequests, idx, prTitle,
          checkRuns, statuses, versionBump, calls, setFailed, console>>

Null == "null"      \* JavaScript's null and undefined
Thrown == "throw"   \* the outcome of an evaluation that throws
Unset == "unset"    \* a loop-local constant outside its scope

-----------------------------------------------------------------------------
(* String helpers: String.prototype.split / substr / trim as index.ts uses  *)
(* them.                                                                    *)

\* index.ts:48 and 54: substr(0, 8)
TokenCap == 8

Min(a, b) == IF a < b THEN a ELSE b

CharAt(s, i) == SubSeq(s, i, i)

\* Position of the first occurrence of sep in s at or after position from
\* (1-based), 0 if there is none.
RECURSIVE IndexFrom(_, _, _)
IndexFrom(s, sep, from) ==
    IF from + Len(sep) - 1 > Len(s) THEN 0
    ELSE IF SubSeq(s, from, from + Len(sep) - 1) = sep THEN from
    ELSE IndexFrom(s, sep, from + 1)

IndexOf(s, sep) == IndexFrom(s, sep, 1)

\* s.split(sep)[0]
SplitFirst(s, sep) ==
    IF IndexOf(s, sep) = 0 THEN s ELSE SubSeq(s, 1, IndexOf(s, sep) - 1)

\* s.split(sep)[1] when sep occurs in s: the text between the first and the
\* second occurrence of sep.  (When sep does not occur the element is
\* undefined; the callers test IndexOf first.)
SplitSecond(s, sep) ==
    SplitFirst(SubSeq(s, IndexOf(s, sep) + Len(sep), Len(s)), sep)

\* s.substr(0, n)
Substr0(s, n) == SubSeq(s, 1, Min(n, Len(s)))

WhiteSpace == {" ", "\n", "\t", "\r"}

RECURSIVE TrimStart(_)
TrimStart(s) ==
    IF Len(s) > 0 /\ CharAt(s, 1) \in WhiteSpace
    THEN TrimStart(SubSeq(s, 2, Len(s))) ELSE s

RECURSIVE TrimEnd(_)
TrimEnd(s) ==
    IF Len(s) > 0 /\ CharAt(s, Len(s)) \in WhiteSpace
    THEN TrimEnd(SubSeq(s, 1, Len(s) - 1)) ELSE s

\* s.trim()
Trim(s) == TrimEnd(TrimStart(s))

-----------------------------------------------------------------------------
(* The semver package, as far as diff() uses it: strict parsing of a        *)
(* version (SemVer constructor, regular expression FULL) and diff().        *)

Digits == {"0", "1", "2", "3", "4", "5", "6", "7", "8", "9"}

Letters == {"a", "b", "c", "d", "e", "f", "g", "h", "i", "j", "k", "l", "m",
            "n", "o", "p", "q", "r", "s", "t", "u", "v", "w", "x", "y", "z",
            "A", "B", "C", "D", "E", "F", "G", "H", "I", "J", "K", "L", "M",
            "N", "O", "P", "Q", "R", "S", "T", "U", "V", "W", "X", "Y", "Z"}

DigitValue(c) ==
    CASE c = "0" -> 0 [] c = "1" -> 1 [] c = "2" -> 2 [] c = "3" -> 3
      [] c = "4" -> 4 [] c = "5" -> 5 [] c = "6" -> 6 [] c = "7" -> 7
      [] c = "8" -> 8 [] c = "9" -> 9

AllIn(s, set) == \A i \in 1..Len(s) : CharAt(s, i) \in set

\* 0|[1-9]\d*
IsNumericId(s) ==
    /\ Len(s) > 0
    /\ AllIn(s, Digits)
    /\ (Len(s) > 1 => CharAt(s, 1) # "0")

RECURSIVE ToNumber(_)
ToNumber(s) ==
    IF Len(s) = 0 THEN 0
    ELSE 10 * ToNumber(SubSeq(s, 1, Len(s) - 1)) + DigitValue(CharAt(s, Len(s)))

\* Length of the longest prefix of s made of characters of set.
RECURSIVE PrefixLen(_, _)
PrefixLen(s, set) ==
    IF Len(s) > 0 /\ CharAt(s, 1) \in set
    THEN 1 + PrefixLen(SubSeq(s, 2, Len(s)), set) ELSE 0

\* One identifier of a pre-release (numericStrict: no leading zeros in a
\* numeric identifier) or of build metadata.
IdOk(id, numericStrict) ==
    /\ Len(id) > 0
    /\ AllIn(id, Digits \cup Letters \cup {"-"})
    /\ (numericStrict /\ AllIn(id, Digits) => IsNumericId(id))

\* A dot-separated list of identifiers.
RECURSIVE IdsOk(_, _)
IdsOk(s, numericStrict) ==
    /\ IdOk(SplitFirst(s, "."), numericStrict)
    /\ (IndexOf(s, ".") # 0
          => IdsOk(SubSeq(s, IndexOf(s, ".") + 1, Len(s)), numericStrict))

BadVersion == [ok |-> FALSE]

StartsWith(s, c) == Len(s) > 0 /\ CharAt(s, 1) = c

\* The text before the first occurrence of c in s, all of s when there is none.
UpTo(s, c) == IF IndexOf(s, c) = 0 THEN s ELSE SubSeq(s, 1, IndexOf(s, c) - 1)

\* The text from the first occurrence of c in s on, "" when there is none.
From(s, c) == IF IndexOf(s, c) = 0 THEN "" ELSE SubSeq(s, IndexOf(s, c), Len(s))

\* The parts the regular expression FULL matched: the three numeric
\* components, the pre-release after "-" and the build metadata after "+"
\* (rest is what follows the patch digits).
MakeVersion(major, minor, patch, rest) ==
    IF /\ IsNumericId(major) /\ IsNumericId(minor) /\ IsNumericId(patch)
       /\ (Len(rest) > 0 => StartsWith(rest, "-") \/ StartsWith(rest, "+"))
       /\ (StartsWith(rest, "-")
             => IdsOk(SubSeq(UpTo(rest, "+"), 2, Len(UpTo(rest, "+"))), TRUE))
       /\ (IndexOf(rest, "+") # 0
             => IdsOk(SubSeq(From(rest, "+"), 2, Len(From(rest, "+"))), FALSE))
    THEN [ok |-> TRUE, major |-> ToNumber(major), minor |-> ToNumber(minor),
          patch |-> ToNumber(patch),
          prerelease |-> IF StartsWith(rest, "-")
                         THEN SubSeq(UpTo(rest, "+"), 2, Len(UpTo(rest, "+")))
                         ELSE ""]
    ELSE BadVersion

ParsePatch(major, minor, r2) ==
    MakeVersion(major, minor, SubSeq(r2, 1, PrefixLen(r2, Digits)),
                SubSeq(r2, PrefixLen(r2, Digits) + 1, Len(r2)))

ParseMinor(major, r1) ==
    IF IndexOf(r1, ".") = 0 THEN BadVersion
    ELSE ParsePatch(major, UpTo(r1, "."),
                    SubSeq(r1, IndexOf(r1, ".") + 1, Len(r1)))

ParseMajor(v) ==
    IF IndexOf(v, ".") = 0 THEN BadVersion
    ELSE ParseMinor(UpTo(v, "."), SubSeq(v, IndexOf(v, ".") + 1, Len(v)))

\* new SemVer(version) in strict mode: the version matched against
\* ^v?MAJOR.MINOR.PATCH(-PRERELEASE)?(+BUILD)?$; BadVersion stands for the
\* TypeError it throws.
ParseVersion(version) ==
    ParseMajor(IF StartsWith(version, "v")
               THEN SubSeq(version, 2, Len(version)) ELSE version)

\* diff() on two parsed versions: null when they are equal (build metadata
\* ignored), else the first differing component, prefixed with "pre" when
\* either version has a pre-release.
DiffParsed(v1, v2) ==
    IF ~v1.ok \/ ~v2.ok THEN Thrown
    ELSE IF v1 = v2 THEN Null
    ELSE IF v1.major # v2.major
         THEN (IF v1.prerelease # "" \/ v2.prerelease # "" THEN "pre" ELSE "") \o "major"
    ELSE IF v1.minor # v2.minor
         THEN (IF v1.prerelease # "" \/ v2.prerelease # "" THEN "pre" ELSE "") \o "minor"
    ELSE IF v1.patch # v2.patch
         THEN (IF v1.prerelease # "" \/ v2.prerelease # "" THEN "pre" ELSE "") \o "patch"
    ELSE "prerelease"

\* semver.diff(version1, version2); Thrown stands for the TypeError of an
\* invalid version.
Diff(version1, version2) ==
    DiffParsed(ParseVersion(version1), ParseVersion(version2))

-----------------------------------------------------------------------------
(* The helpers of index.ts.                                                 *)

\* Faulty variant of getAutoMerge: the default is patch.
getAutoMerge_DefaultPatch(value) ==
    LET am == IF value = "" THEN "patch" ELSE value
    IN  IF am # "major" /\ am # "minor" /\ am # "patch" THEN Thrown ELSE am

\* index.ts:24-29.
getAutoMerge(value) ==
    LET am == IF value = "" THEN "minor" ELSE value
    IN  IF am # "major" /\ am # "minor" /\ am # "patch" THEN Thrown ELSE am

\* Faulty variant of getMergeMethod: the value is not validated.
getMergeMethod_NoValidation(value) == IF value = "" THEN "merge" ELSE value

\* index.ts:31-40.
getMergeMethod(value) ==
    LET mm == IF value = "" THEN "merge" ELSE value
    IN  IF mm # "merge" /\ mm # "squash" /\ mm # "rebase" THEN Thrown ELSE mm

\* index.ts:44-49 and 50-55: the chain
\* prTitle.split(marker)[1].split(' ')[0].split('\n')[0].substr(0, 8).trim(),
\* for a title in which marker occurs.
VersionToken(title, marker) ==
    Trim(Substr0(SplitFirst(SplitFirst(SplitSecond(title, marker), " "), "\n"),
                 TokenCap))

\* index.ts:59-61.
DiffIfBoth(fromVersion, toVersion) ==
    IF fromVersion # "" /\ toVersion # ""
    THEN Diff(fromVersion, toVersion)
    ELSE Null

\* index.ts:43-61, the body of the try block.  Calling .split on the
\* undefined second element (marker absent) throws, and so does diff() on an
\* invalid version.
getSemverTry(title) ==
    IF IndexOf(title, "from ") = 0 THEN Thrown
    ELSE IF IndexOf(title, " to ") = 0 THEN Thrown
    ELSE DiffIfBoth(VersionToken(title, "from "), VersionToken(title, " to "))

\* Faulty variant of Catch: the exception is not caught.
Catch_Rethrow(result) == result

\* index.ts:62-65: the catch block is empty and null is returned.
Catch(result) == IF result = Thrown THEN Null ELSE result

\* index.ts:42-66.
getSemver(title) == Catch(getSemverTry(title))

\* Faulty variant of AllChecksHaveSucceeded: the check runs are not looked at.
AllChecksHaveSucceeded_Always(check_runs) == TRUE

\* Faulty variant of AllChecksHaveSucceeded: only a failed check run counts.
AllChecksHaveSucceeded_OnlyFailureFails(check_runs) ==
    \A i \in 1..Len(check_runs) : check_runs[i] # "failure"

\* index.ts:145-147.
AllChecksHaveSucceeded(check_runs) ==
    \A i \in 1..Len(check_runs) :
        check_runs[i] = "success" \/ check_runs[i] = "neutral"

\* self.map((i) => i.context).indexOf(item.context), 1-based.
FirstIndexOfContext(self, context) ==
    CHOOSE i \in 1..Len(self) :
        /\ self[i].context = context
        /\ \A j \in 1..(i - 1) : self[j].context # context

\* index.ts:159-162.
RECURSIVE FilterFirstOfContext(_, _)
FilterFirstOfContext(self, n) ==
    IF n = 0 THEN <<>>
    ELSE IF FirstIndexOfContext(self, self[n].context) = n
         THEN Append(FilterFirstOfContext(self, n - 1), self[n])
         ELSE FilterFirstOfContext(self, n - 1)

\* Faulty variant of UniqueStatuses: duplicates are kept.
UniqueStatuses_NoDedupe(data) == data

UniqueStatuses(data) == FilterFirstOfContext(data, Len(data))

\* Faulty variant of AllStatusesHaveSucceeded: an empty list does not pass.
AllStatusesHaveSucceeded_NeedsOne(uniqueStatuses) ==
    /\ Len(uniqueStatuses) > 0
    /\ \A i \in 1..Len(uniqueStatuses) : uniqueStatuses[i].state = "success"

\* index.ts:163-165.
AllStatusesHaveSucceeded(uniqueStatuses) ==
    \A i \in 1..Len(uniqueStatuses) : uniqueStatuses[i].state = "success"

\* Faulty variant of ShouldMerge: only the bumps patch and null pass without
\* regard to the threshold.
ShouldMerge_NamedOnly(bump, threshold) ==
    \/ (bump = "major" /\ threshold = "major")
    \/ (bump = "minor" /\ (threshold = "major" \/ threshold = "minor"))
    \/ bump = "patch"
    \/ bump = Null

\* Faulty variant of ShouldMerge: a minor bump passes under every threshold.
ShouldMerge_MinorAlways(bump, threshold) ==
    \/ (bump = "major" /\ threshold = "major")
    \/ bump # "major"

\* index.ts:175-180, the condition of the approve-and-merge branch.
ShouldMerge(bump, threshold) ==
    \/ (bump = "major" /\ threshold = "major")
    \/ (bump = "minor" /\ (threshold = "major" \/ threshold = "minor"))
    \/ (bump # "major" /\ bump # "minor")

\* index.ts:138: pr._links.statuses.href.split('/').pop() || ''
RECURSIVE LastSegment(_)
LastSegment(href) ==
    IF IndexOf(href, "/") = 0 THEN href
    ELSE LastSegment(SubSeq(href, IndexOf(href, "/") + 1, Len(href)))

-----------------------------------------------------------------------------
(* The remote repository run() talks to through octokit.                    *)

MaxPRs == 2

\* The title Dependabot gives a pull request.
MkTitle(dep, from, to) == "Bump " \o dep \o " from " \o from \o " to " \o to

\* Titles of pull requests, one for each kind of bump.
RunTitles ==
    { MkTitle("react", "17.0.0", "18.0.0"),
      MkTitle("a", "1.2.3", "1.3.0"),
      MkTitle("lodash", "4.17.10", "4.17.21"),
      MkTitle("a", "1.2.3", "1.2.3"),
      MkTitle("cal", "2021.10.1", "2022.10.1"),
      "Update README" }

Status(context, state) == [context |-> context, state |-> state]

Signals(check_runs, data) == [check_runs |-> check_runs, statuses |-> data]

\* The commits pull requests point at: the answer of checks.listForRef (the
\* conclusion of each check run) and of repos.listCommitStatusesForRef.
Commits == {"c1", "c2", "c3", "c4"}

SignalsOf(ref) ==
    CASE ref = "c1" -> Signals(<<"success", "neutral">>, <<Status("ci", "success")>>)
      [] ref = "c2" -> Signals(<<"success", "failure", "success">>,
                               <<Status("ci", "success")>>)
      [] ref = "c3" -> Signals(<<"success">>,
                               <<Status("ci", "failure"), Status("ci", "success")>>)
      [] ref = "c4" -> Signals(<<>>, <<>>)

\* pr._links.statuses.href
StatusesHref(sha) == "https://api.github.com/repos/o/r/statuses/" \o sha

PullRequest(title, login, sha) ==
    [title |-> title, login |-> login, href |-> StatusesHref(sha)]

\* The pull requests the list may hold.  Of dependabot: a green one for each
\* bump (the minor one with no check runs and no statuses at all) and a
\* patch-level one with a failing check run; of another author: a
\* patch-level one whose first status of a context has failed; of no author:
\* a green patch-level one.
PRChoices ==
    { PullRequest(MkTitle("react", "17.0.0", "18.0.0"), "dependabot[bot]", "c1"),
      PullRequest(MkTitle("a", "1.2.3", "1.3.0"), "dependabot[bot]", "c4"),
      PullRequest(MkTitle("lodash", "4.17.10", "4.17.21"), "dependabot[bot]", "c1"),
      PullRequest("Update README", "dependabot[bot]", "c1"),
      PullRequest(MkTitle("lodash", "4.17.10", "4.17.21"), "dependabot[bot]", "c2"),
      PullRequest(MkTitle("lodash", "4.17.10", "4.17.21"), "renovate[bot]", "c3"),
      PullRequest(MkTitle("lodash", "4.17.10", "4.17.21"), Null, "c1") }

\* The answers of pulls.list: up to MaxPRs open pull requests, newest first.
PRLists ==
    UNION { { [i \in 1..n |->
                 [number |-> 40 + n - i, title |-> f[i].title,
                  login |-> f[i].login, href |-> f[i].href]] :
              f \in [1..n -> PRChoices] } : n \in 0..MaxPRs }

\* The inputs of the action: getInput returns "" for an input that is not set.
TokenInputs == {"", "ghs_token"}
EnvTokens == {"", "ghs_token"}
AutoMergeInputs == {"", "major", "minor", "patch", "all"}
MergeMethodInputs == {"", "squash", "rebase", "fast-forward"}
PrAuthorInputs == {"", "renovate[bot]"}

-----------------------------------------------------------------------------
(* run(), index.ts:115-188, and run().catch(error), index.ts:190.  A step   *)
(* is the code between two awaits; a remote call is logged in calls when it *)
(* is issued and its entry is resolved when it returns.                     *)

Call(op, pr, method) == [op |-> op, pr |-> pr, method |-> method, res |-> "pending"]

Resolve(log, res) == [log EXCEPT ![Len(log)].res = res]

\* Faulty variant of FilterByAuthor: every open pull request is kept.
FilterByAuthor_KeepAll(data, author) == data

\* index.ts:129: data.filter((pr) => pr.user?.login === prAuthor)
RECURSIVE FilterByAuthor(_, _)
FilterByAuthor(data, author) ==
    IF Len(data) = 0 THEN <<>>
    ELSE IF Head(data).login = author
         THEN <<Head(data)>> \o FilterByAuthor(Tail(data), author)
         ELSE FilterByAuthor(Tail(data), author)

Init ==
    /\ remote = [c \in Commits |-> SignalsOf(c)]
    /\ pc = "start"
    /\ token = Null
    /\ autoMerge = Null
    /\ mergeMethod = Null
    /\ autoMergeInput = Unset
    /\ mergeMethodInput = Unset
    /\ prAuthor = Null
    /\ openPRs = <<>>
    /\ pullRequests = <<>>
    /\ idx = 0
    /\ prTitle = Null
    /\ checkRuns = <<>>
    /\ statuses = <<>>
    /\ versionBump = Unset
    /\ calls = <<>>
    /\ setFailed = Null
    /\ console = <<>>

\* `${n}` for a natural number n.
RECURSIVE NumberToString(_)
NumberToString(n) ==
    IF n < 10 THEN SubSeq("0123456789", n + 1, n + 1)
    ELSE NumberToString(n \div 10) \o SubSeq("0123456789", (n % 10) + 1, (n % 10) + 1)

\* index.ts:131.
FoundLine(prs) == "Found " \o NumberToString(Len(prs)) \o " matching pull requests"

\* index.ts:137.
ProcessingLine(pr) ==
    "Processing PR " \o NumberToString(pr.number) \o ": " \o pr.title

\* The promise of run() rejects: error(), index.ts:18-22 and 190.  out is
\* what info() has printed until then.
Reject(message, log, out) ==
    /\ pc' = "failed"
    /\ setFailed' = message
    /\ calls' = log
    /\ console' = out
    /\ prTitle' = Null
    /\ checkRuns' = <<>>
    /\ statuses' = <<>>
    /\ versionBump' = Unset
    /\ UNCHANGED idx

\* Faulty variant of Iterate: the loop skips the element after the first.
Iterate_SkipsSecond(prs, i, log, out) ==
    /\ idx' = (IF i = 2 THEN 3 ELSE i)
    /\ checkRuns' = <<>>
    /\ statuses' = <<>>
    /\ versionBump' = Unset
    /\ UNCHANGED setFailed
    /\ IF (IF i = 2 THEN 3 ELSE i) > Len(prs)
       THEN /\ pc' = "done"
            /\ prTitle' = Null
            /\ calls' = log
            /\ console' = out
       ELSE /\ pc' = "checks_wait"
            /\ prTitle' = prs[IF i = 2 THEN 3 ELSE i].title
            /\ calls' = Append(log, Call("checks", prs[IF i = 2 THEN 3 ELSE i].number,
                                         Null))
            /\ console' = Append(out, ProcessingLine(prs[IF i = 2 THEN 3 ELSE i]))

\* The head of the for-of loop for element i of prs, index.ts:133-143: the
\* loop ends, or the check runs of the next pull request are requested.
Iterate(prs, i, log, out) ==
    /\ idx' = i
    /\ checkRuns' = <<>>
    /\ statuses' = <<>>
    /\ versionBump' = Unset
    /\ UNCHANGED setFailed
    /\ IF i > Len(prs)
       THEN /\ pc' = "done"
            /\ prTitle' = Null
            /\ calls' = log
            /\ console' = out
       ELSE /\ pc' = "checks_wait"
            /\ prTitle' = prs[i].title
            /\ calls' = Append(log, Call("checks", prs[i].number, Null))
            /\ console' = Append(out, ProcessingLine(prs[i]))

\* index.ts:116-128.
Start ==
    /\ pc = "start"
    /\ \E tokenInput \in TokenInputs, envToken \in EnvTokens,
          am \in AutoMergeInputs, mm \in MergeMethodInputs,
          pa \in PrAuthorInputs :
          IF (IF tokenInput # "" THEN tokenInput ELSE envToken) = ""
          THEN /\ Reject("GitHub token not found; set the token parameter", calls, console)
               /\ UNCHANGED <<token, autoMerge, mergeMethod, autoMergeInput,
                              mergeMethodInput, prAuthor>>
          ELSE IF getAutoMerge(am) = Thrown
          THEN /\ Reject("Invalid auto-merge option: " \o am, calls, console)
               /\ UNCHANGED <<token, autoMerge, mergeMethod, autoMergeInput,
                              mergeMethodInput, prAuthor>>
          ELSE IF getMergeMethod(mm) = Thrown
          THEN /\ Reject("Invalid merge method: " \o mm, calls, console)
               /\ UNCHANGED <<token, autoMerge, mergeMethod, autoMergeInput,
                              mergeMethodInput, prAuthor>>
          ELSE /\ token' = IF tokenInput # "" THEN tokenInput ELSE envToken
               /\ prAuthor' = IF pa # "" THEN pa ELSE "dependabot[bot]"
               /\ autoMergeInput' = am
               /\ mergeMethodInput' = mm
               /\ autoMerge' = getAutoMerge(am)
               /\ mergeMethod' = getMergeMethod(mm)
               /\ calls' = Append(calls, Call("list", 0, Null))
               /\ pc' = "list_wait"
               /\ UNCHANGED <<idx, prTitle, checkRuns, statuses, versionBump,
                              setFailed, console>>
    /\ UNCHANGED <<remote, openPRs, pullRequests>>

\* pulls.merge closes the pull request it merges: of the listing open, the
\* pull requests for which the log holds no merge call that succeeded.
StillOpen(open, log) ==
    SelectSeq(open, LAMBDA pr :
        ~\E k \in 1..Len(log) :
            log[k].op = "merge" /\ log[k].pr = pr.number /\ log[k].res = "ok")

\* What pulls.list with state 'open' may answer, index.ts:127-129: any list in
\* the first pass; in a later pass what the merges so far have left open of
\* the listing before.
Listing(open, log) ==
    IF Len(log) = 1 THEN PRLists ELSE {StillOpen(open, log)}

\* Faulty variant of ListReturn: the loop runs over the listing of the pass
\* before when there is one.
ListReturn_KeepsListing ==
    /\ pc = "list_wait"
    /\ UNCHANGED <<remote, token, autoMerge, mergeMethod, autoMergeInput,
                   mergeMethodInput, prAuthor>>
    /\ \/ /\ Reject("pulls.list failed", Resolve(calls, "error"), console)
          /\ UNCHANGED <<openPRs, pullRequests>>
       \/ \E data \in Listing(openPRs, calls) :
             /\ openPRs' = data
             /\ pullRequests' =
                  FilterByAuthor(IF Len(calls) = 1 THEN data ELSE openPRs, prAuthor)
             /\ Iterate(FilterByAuthor(IF Len(calls) = 1 THEN data ELSE openPRs,
                                       prAuthor),
                        1, Resolve(calls, "ok"),
                        Append(console,
                               FoundLine(FilterByAuthor(
                                   IF Len(calls) = 1 THEN data ELSE openPRs,
                                   prAuthor))))

\* index.ts:127-143: pulls.list returns (or throws).
ListReturn ==
    /\ pc = "list_wait"
    /\ UNCHANGED <<remote, token, autoMerge, mergeMethod, autoMergeInput,
                   mergeMethodInput, prAuthor>>
    /\ \/ /\ Reject("pulls.list failed", Resolve(calls, "error"), console)
          /\ UNCHANGED <<openPRs, pullRequests>>
       \/ \E data \in Listing(openPRs, calls) :
             /\ openPRs' = data
             /\ pullRequests' = FilterByAuthor(data, prAuthor)
             /\ Iterate(FilterByAuthor(data, prAuthor), 1, Resolve(calls, "ok"),
                        Append(console, FoundLine(FilterByAuthor(data, prAuthor))))

\* index.ts:138: the commit the signals of pull request pr are asked for.
LastCommitHash(pr) == LastSegment(pr.href)

\* index.ts:139-158: checks.listForRef returns (or throws).
ChecksReturn ==
    /\ pc = "checks_wait"
    /\ UNCHANGED <<remote, token, autoMerge, mergeMethod, autoMergeInput,
                   mergeMethodInput, prAuthor, openPRs, pullRequests>>
    /\ \/ Reject("checks.listForRef failed", Resolve(calls, "error"), console)
       \/ IF ~AllChecksHaveSucceeded(
                 remote[LastCommitHash(pullRequests[idx])].check_runs)
          THEN Iterate(pullRequests, idx + 1, Resolve(calls, "ok"),
                       Append(console, "All checks did not succeed"))
          ELSE /\ checkRuns' = remote[LastCommitHash(pullRequests[idx])].check_runs
               /\ calls' = Append(Resolve(calls, "ok"),
                                  Call("statuses", pullRequests[idx].number, Null))
               /\ pc' = "statuses_wait"
               /\ UNCHANGED <<idx, prTitle, statuses, versionBump, setFailed,
                              console>>

\* index.ts:172-186: the version bump is classified and the pull request is
\* approved (the approve call is issued) or left alone.
Decide(bump) ==
    IF bump = Thrown
    THEN Reject("getSemver failed", Resolve(calls, "ok"), console)
    ELSE IF ShouldMerge(bump, autoMerge)
    THEN /\ statuses' = remote[LastCommitHash(pullRequests[idx])].statuses
         /\ versionBump' = bump
         /\ calls' = Append(Resolve(calls, "ok"),
                            Call("approve", pullRequests[idx].number, Null))
         /\ console' = console \o <<"Version bump: " \o bump, "Approve and merge">>
         /\ pc' = "approve_wait"
         /\ UNCHANGED <<idx, prTitle, checkRuns, setFailed>>
    ELSE Iterate(pullRequests, idx + 1, Resolve(calls, "ok"),
                 console \o <<"Version bump: " \o bump, "Not merging " \o bump>>)

\* index.ts:154-186: repos.listCommitStatusesForRef returns (or throws).
StatusesReturn ==
    /\ pc = "statuses_wait"
    /\ UNCHANGED <<remote, token, autoMerge, mergeMethod, autoMergeInput,
                   mergeMethodInput, prAuthor, openPRs, pullRequests>>
    /\ \/ Reject("repos.listCommitStatusesForRef failed", Resolve(calls, "error"),
                 console)
       \/ IF ~AllStatusesHaveSucceeded(UniqueStatuses(
                 remote[LastCommitHash(pullRequests[idx])].statuses))
          THEN Iterate(pullRequests, idx + 1, Resolve(calls, "ok"),
                       Append(console, "All statuses did not succeed"))
          ELSE Decide(getSemver(pullRequests[idx].title))

\* Faulty variant of ApproveReturn: a failed approve skips the merge.
ApproveReturn_StopOnFailure ==
    /\ pc = "approve_wait"
    /\ UNCHANGED <<remote, token, autoMerge, mergeMethod, autoMergeInput,
                   mergeMethodInput, prAuthor, openPRs, pullRequests>>
    /\ \/ /\ calls' = Append(Resolve(calls, "ok"),
                             Call("merge", pullRequests[idx].number, mergeMethod))
          /\ pc' = "merge_wait"
          /\ UNCHANGED <<idx, prTitle, checkRuns, statuses, versionBump, setFailed,
                         console>>
       \/ Iterate(pullRequests, idx + 1, Resolve(calls, "error"),
                  Append(console, "Approve failed: Not Found"))

\* approve(), index.ts:68-89, returns true or false; then index.ts:183.
ApproveReturn ==
    /\ pc = "approve_wait"
    /\ \E ok \in BOOLEAN :
          /\ calls' = Append(Resolve(calls, IF ok THEN "ok" ELSE "error"),
                             Call("merge", pullRequests[idx].number, mergeMethod))
          /\ console' = IF ok THEN console
                        ELSE Append(console, "Approve failed: Not Found")
    /\ pc' = "merge_wait"
    /\ UNCHANGED <<remote, token, autoMerge, mergeMethod, autoMergeInput,
                   mergeMethodInput, prAuthor, openPRs, pullRequests, idx,
                   prTitle, checkRuns, statuses, versionBump, setFailed>>

\* Faulty variant of MergeReturn: a failed merge is not caught.
MergeReturn_Rethrow ==
    /\ pc = "merge_wait"
    /\ UNCHANGED <<remote, token, autoMerge, mergeMethod, autoMergeInput,
                   mergeMethodInput, prAuthor, openPRs, pullRequests>>
    /\ \/ Iterate(pullRequests, idx + 1, Resolve(calls, "ok"), console)
       \/ Reject("pulls.merge failed", Resolve(calls, "error"), console)

\* merge(), index.ts:91-113, returns true or false; then the loop goes on.
MergeReturn ==
    /\ pc = "merge_wait"
    /\ UNCHANGED <<remote, token, autoMerge, mergeMethod, autoMergeInput,
                   mergeMethodInput, prAuthor, openPRs, pullRequests>>
    /\ \E ok \in BOOLEAN :
          Iterate(pullRequests, idx + 1, Resolve(calls, IF ok THEN "ok" ELSE "error"),
                  IF ok THEN console
                  ELSE Append(console, "Merge failed: Pull Request is not mergeable"))

Next ==
    \/ Start
    \/ ListReturn
    \/ ChecksReturn
    \/ StatusesReturn
    \/ ApproveReturn
    \/ MergeReturn

Spec == Init /\ [][Next]_vars

-----------------------------------------------------------------------------
(* The workflow runs the action again.  Nothing of run() outlives the       *)
(* process (index.ts keeps no file and no cache); what carries over is the  *)
(* repository: calls stays as the record of what was done to it, openPRs as *)
(* what it listed last.  The passes are followed from the first answer of   *)
(* pulls.list on.                                                           *)

MaxPasses == 2

Passes == Cardinality({ k \in 1..Len(calls) : calls[k].op = "list" })

\* index.ts:190 and 115-128 once more, with the inputs of the workflow
\* unchanged: the configuration is validated as before and pulls.list is
\* called.
Rerun ==
    /\ pc = "done"
    /\ Passes < MaxPasses
    /\ pc' = "list_wait"
    /\ calls' = Append(calls, Call("list", 0, Null))
    /\ pullRequests' = <<>>
    /\ idx' = 0
    /\ UNCHANGED <<remote, token, autoMerge, mergeMethod, autoMergeInput,
                   mergeMethodInput, prAuthor, openPRs, prTitle, checkRuns,
                   statuses, versionBump, setFailed, console>>

\* The state in which run() waits for the answer of pulls.list, index.ts:128,
\* for a workflow that sets the token and leaves the other inputs unset.
InitPass ==
    /\ remote = [c \in Commits |-> SignalsOf(c)]
    /\ pc = "list_wait"
    /\ token = "ghs_token"
    /\ autoMerge = getAutoMerge("")
    /\ mergeMethod = getMergeMethod("")
    /\ autoMergeInput = ""
    /\ mergeMethodInput = ""
    /\ prAuthor = "dependabot[bot]"
    /\ openPRs = <<>>
    /\ pullRequests = <<>>
    /\ idx = 0
    /\ prTitle = Null
    /\ checkRuns = <<>>
    /\ statuses = <<>>
    /\ versionBump = Unset
    /\ calls = <<Call("list", 0, Null)>>
    /\ setFailed = Null
    /\ console = <<>>

NextTwice ==
    \/ ListReturn
    \/ ChecksReturn
    \/ StatusesReturn
    \/ ApproveReturn
    \/ MergeReturn
    \/ Rerun

SpecTwice == InitPass /\ [][NextTwice]_vars

-----------------------------------------------------------------------------
(* One pass from the call of pulls.list on, in which a call that is awaited *)
(* does return or throw: the event loop resumes run() when the promise of   *)
(* the call settles.                                                        *)

NextPass ==
    \/ ListReturn
    \/ ChecksReturn
    \/ StatusesReturn
    \/ ApproveReturn
    \/ MergeReturn

SpecPass == InitPass /\ [][NextPass]_vars /\ WF_vars(NextPass)

-----------------------------------------------------------------------------
(* One pull request through the loop body, for every title and every       *)
(* signal list of a bounded family: the state after pulls.list returned a   *)
(* single pull request of dependabot, with the configuration drawn from     *)
(* the valid thresholds.                                                    *)

MaxChecks == 3
MaxStatuses == 3

SeqsUpTo(S, n) == UNION { [1..k -> S] : k \in 0..n }

Conclusions == {"success", "neutral", "failure", "pending", Null}

StatusEntries ==
    { Status(c, st) : c \in {"ci", "lint"}, st \in {"success", "failure", "pending"} }

VersionTokens ==
    { "1.2.3", "1.2.4", "1.3.0", "2.0.0", "4.17.10", "4.17.21", "17.0.0",
      "18.0.0", "10.12.100", "10.12.101", "2021.10.1", "2022.10.1",
      "1.0.0-a", "2.0.0-a", "1.0.0-rc.1", "1.2.3+b1", "v1.2.3", "01.2.3",
      "1.2", "latest" }

TitleSuffixes == {"", " in /app"}

OddTitles ==
    { "Update README",
      "Bump a from 1.2.3",
      "Bump a to 1.2.3",
      "Bump a from  to 1.2.3",
      "Bump a from 1.2.3 to ",
      "Bump a from 1.2.3\nto 1.2.4",
      "Bump a from 1.2.3 to 1.2.4\nBumps a from 1.2.3 to 2.0.0",
      "Bump a from 1.2.3 to 1.2.4 and b from 1.0.0 to 2.0.0",
      "Upgrade to 2.0.0 from 1.0.0",
      "Bump how to from 1.2.3 to 2.0.0" }

LoopTitles ==
    { MkTitle("dep", x, y) \o sfx :
        x \in VersionTokens, y \in VersionTokens, sfx \in TitleSuffixes }
    \cup OddTitles

LoopCases ==
    { [title |-> t, signals |-> SignalsOf("c1")] : t \in LoopTitles }
    \cup
    { [title |-> t, signals |-> Signals(cr, <<Status("ci", "success")>>)] :
        t \in RunTitles, cr \in SeqsUpTo(Conclusions, MaxChecks) }
    \cup
    { [title |-> MkTitle("lodash", "4.17.10", "4.17.21"),
       signals |-> Signals(<<"success">>, st)] :
        st \in SeqsUpTo(StatusEntries, MaxStatuses) }
    \cup
    { [title |-> t, signals |-> Signals(<<>>, <<>>)] : t \in RunTitles }

InitLoop ==
    \E c \in LoopCases, am \in {"major", "minor", "patch"} :
        /\ remote = [r \in {"c1"} |-> c.signals]
        /\ pc = "checks_wait"
        /\ token = "ghs_token"
        /\ autoMerge = am
        /\ mergeMethod = "merge"
        /\ autoMergeInput = am
        /\ mergeMethodInput = ""
        /\ prAuthor = "dependabot[bot]"
        /\ openPRs = <<[number |-> 40, title |-> c.title,
                        login |-> "dependabot[bot]", href |-> StatusesHref("c1")]>>
        /\ pullRequests = openPRs
        /\ idx = 1
        /\ prTitle = c.title
        /\ checkRuns = <<>>
        /\ statuses = <<>>
        /\ versionBump = Unset
        /\ calls = <<Resolve(<<Call("list", 0, Null)>>, "ok")[1],
                     Call("checks", 40, Null)>>
        /\ setFailed = Null
        /\ console = <<FoundLine(pullRequests), ProcessingLine(pullRequests[1])>>

NextLoop ==
    \/ ChecksReturn
    \/ StatusesReturn
    \/ ApproveReturn
    \/ MergeReturn

SpecLoop == InitLoop /\ [][NextLoop]_vars

-----------------------------------------------------------------------------
(* Properties.  They are stated on the log of remote calls and on the       *)
(* repository's data, with their own reading of "green".                    *)

Issued(op, n) == \E k \in 1..Len(calls) : calls[k].op = op /\ calls[k].pr = n

Acted(n) == Issued("approve", n) \/ Issued("merge", n)

\* The loop has gone past element j of pullRequests.
Finished(j) == j \in 1..Len(pullRequests) /\ j < idx

\* The pull request of the list that has number n.
PRByNumber(n) == openPRs[CHOOSE i \in 1..Len(openPRs) : openPRs[i].number = n]

\* The signals the repository reports for the commit of pull request pr.
SignalsFor(pr) == remote[CHOOSE c \in DOMAIN remote : StatusesHref(c) = pr.href]

ChecksGreen(pr) ==
    \A i \in 1..Len(SignalsFor(pr).check_runs) :
        SignalsFor(pr).check_runs[i] \in {"success", "neutral"}

\* For every context, the first entry of the list with that context has
\* state success.
FirstPerContextSucceeded(list) ==
    \A i \in 1..Len(list) :
        (\A k \in 1..(i - 1) : list[k].context # list[i].context)
            => list[i].state = "success"

StatusesGreen(pr) == FirstPerContextSucceeded(SignalsFor(pr).statuses)

Green(pr) == ChecksGreen(pr) /\ StatusesGreen(pr)

\* The decision table of the merge policy; the bump none is Null.
DecisionTable(bump, threshold) ==
    CASE bump = "major" -> threshold = "major"
      [] bump = "minor" -> threshold \in {"major", "minor"}
      [] bump = "patch" -> threshold \in {"major", "minor", "patch"}
      [] bump = Null    -> threshold \in {"major", "minor", "patch"}

\* C1: a pull request the loop has finished, whose signals are all green and
\* whose bump is major, minor, patch or none, has received approve and merge
\* when the decision table says merge, and neither call when it says no.
C1_DecisionTableHolds ==
    \A j \in 1..Len(pullRequests) :
        LET bump == getSemver(pullRequests[j].title)
        IN  (/\ Finished(j)
             /\ Green(pullRequests[j])
             /\ bump \in {"major", "minor", "patch", Null})
            => IF DecisionTable(bump, autoMerge)
               THEN /\ Issued("approve", pullRequests[j].number)
                    /\ Issued("merge", pullRequests[j].number)
               ELSE ~Acted(pullRequests[j].number)

\* A pass under threshold minor that held back a green major bump and then
\* merged a green patch bump.
C1_Witness ==
    /\ pc = "done"
    /\ autoMerge = "minor"
    /\ Len(pullRequests) = 2
    /\ pullRequests[1].title = MkTitle("react", "17.0.0", "18.0.0")
    /\ Green(pullRequests[1])
    /\ ~Acted(pullRequests[1].number)
    /\ pullRequests[2].title = MkTitle("lodash", "4.17.10", "4.17.21")
    /\ Issued("merge", pullRequests[2].number)

\* C2: every approve call and every merge call is for a pull request all of
\* whose check runs have conclusion success or neutral.
C2_RedCheckNeverActedOn ==
    \A k \in 1..Len(calls) :
        calls[k].op \in {"approve", "merge"} => ChecksGreen(PRByNumber(calls[k].pr))

\* Under threshold major, a patch-level pull request with one failing check
\* run among three is finished with no call but the fetch of its check runs.
C2_Witness ==
    /\ pc = "done"
    /\ autoMerge = "major"
    /\ pullRequests[1].title = MkTitle("lodash", "4.17.10", "4.17.21")
    /\ SignalsFor(pullRequests[1]).check_runs = <<"success", "failure", "success">>
    /\ calls[Len(calls)].op = "checks"
    /\ calls[Len(calls)].res = "ok"
    /\ ~Acted(pullRequests[1].number)

\* C3: for a finished pull request with green check runs whose bump the policy
\* lets through, approve was called exactly if, for every context of the
\* status list, the first entry with that context has state success.
C3_FirstStatusPerContextDecides ==
    \A j \in 1..Len(pullRequests) :
        (/\ Finished(j)
         /\ ChecksGreen(pullRequests[j])
         /\ ShouldMerge(getSemver(pullRequests[j].title), autoMerge))
        => (Issued("approve", pullRequests[j].number)
              <=> FirstPerContextSucceeded(SignalsFor(pullRequests[j]).statuses))

\* The list [ci:success, ci:failure] passed: the pull request was approved.
C3_Witness ==
    /\ pc = "done"
    /\ SignalsFor(pullRequests[1]).statuses
         = <<Status("ci", "success"), Status("ci", "failure")>>
    /\ Issued("approve", pullRequests[1].number)

\* Size of the change between two parsed versions: 3 major, 2 minor, 1 patch,
\* 0 when the three components agree.
Magnitude(v1, v2) ==
    IF v1.major # v2.major THEN 3
    ELSE IF v1.minor # v2.minor THEN 2
    ELSE IF v1.patch # v2.patch THEN 1
    ELSE 0

Level(threshold) ==
    CASE threshold = "major" -> 3 [] threshold = "minor" -> 2 [] threshold = "patch" -> 1

\* C4: a pull request whose title announces a change from X to Y, X and Y
\* valid versions, receives approve or merge only if the magnitude of the
\* change does not exceed the configured level.
C4_MergedOnlyWithinLevel ==
    \A x \in VersionTokens, y \in VersionTokens, sfx \in TitleSuffixes :
        (/\ pullRequests[1].title = MkTitle("dep", x, y) \o sfx
         /\ ParseVersion(x).ok /\ ParseVersion(y).ok
         /\ Acted(pullRequests[1].number))
        => Magnitude(ParseVersion(x), ParseVersion(y)) <= Level(autoMerge)

\* C5: for a title announcing a change from X to Y, X and Y valid versions,
\* the bump getSemver returned is major when the major components differ,
\* else minor when the minor components differ, else patch when the patch
\* components differ, and none when the versions are equal.
C5_StandardPrecedence ==
    \A x \in VersionTokens, y \in VersionTokens, sfx \in TitleSuffixes :
        (/\ pc = "approve_wait"
         /\ prTitle = MkTitle("dep", x, y) \o sfx
         /\ ParseVersion(x).ok /\ ParseVersion(y).ok)
        => /\ Magnitude(ParseVersion(x), ParseVersion(y)) = 3 => versionBump = "major"
           /\ Magnitude(ParseVersion(x), ParseVersion(y)) = 2 => versionBump = "minor"
           /\ Magnitude(ParseVersion(x), ParseVersion(y)) = 1 => versionBump = "patch"
           /\ ParseVersion(x) = ParseVersion(y) => versionBump = Null

\* Position in pullRequests of the pull request with number n.
PositionOf(n) == CHOOSE j \in 1..Len(pullRequests) : pullRequests[j].number = n

\* C6: when the fetch of the check runs or of the statuses of a pull request
\* has failed, that pull request receives no approve and no merge, and the
\* check runs of every later pull request of the list are fetched.
C6_FetchFailureSkipsOnlyThatPR ==
    \A k \in 1..Len(calls) :
        (calls[k].op \in {"checks", "statuses"} /\ calls[k].res = "error")
        => /\ ~Acted(calls[k].pr)
           /\ \A j \in 1..Len(pullRequests) :
                 j > PositionOf(calls[k].pr) => Issued("checks", pullRequests[j].number)

\* C7: a failed approve or merge call does not end the pass.  A failed run
\* failed at start-up or on the last call, which is a list or fetch call that
\* threw; after a resolved merge call the next call, if any, fetches the check
\* runs of the next pull request, and when the pass is over with no fetch
\* having failed, every pull request after it was fetched; no later call is
\* for the pull request of a merge call.
C7_ActionFailureDoesNotAbort ==
    /\ setFailed # Null
         => /\ pc = "failed"
            /\ (calls # <<>>
                  => /\ calls[Len(calls)].op \in {"list", "checks", "statuses"}
                     /\ calls[Len(calls)].res = "error")
    /\ \A k \in 1..Len(calls) :
          (calls[k].op = "merge" /\ calls[k].res # "pending")
          => /\ \A m \in (k + 1)..Len(calls) : calls[m].pr # calls[k].pr
             /\ k < Len(calls)
                  => /\ calls[k + 1].op = "checks"
                     /\ calls[k + 1].pr = pullRequests[PositionOf(calls[k].pr) + 1].number
             /\ (k = Len(calls) /\ PositionOf(calls[k].pr) < Len(pullRequests))
                  => pc = "failed"
             /\ pc = "done"
                  => \A j \in 1..Len(pullRequests) : Issued("checks", pullRequests[j].number)

\* A pass that ended without setFailed although the approve of the first pull
\* request succeeded and its merge failed; the second one was merged.
C7_Witness ==
    /\ pc = "done"
    /\ setFailed = Null
    /\ Len(pullRequests) = 2
    /\ \E k \in 1..Len(calls) :
          /\ calls[k].op = "approve" /\ calls[k].pr = pullRequests[1].number
          /\ calls[k].res = "ok"
          /\ calls[k + 1].op = "merge" /\ calls[k + 1].res = "error"
    /\ \E k \in 1..Len(calls) :
          /\ calls[k].op = "merge" /\ calls[k].pr = pullRequests[2].number
          /\ calls[k].res = "ok"

\* C8: a merge call comes right after an approve call for the same pull
\* request that has returned (with success or failure), and carries the
\* configured merge method; an approve call that has returned is followed by
\* the merge call.
C8_ApproveThenMerge ==
    \A k \in 1..Len(calls) :
        /\ calls[k].op = "merge"
             => /\ k > 1
                /\ calls[k - 1].op = "approve"
                /\ calls[k - 1].pr = calls[k].pr
                /\ calls[k - 1].res \in {"ok", "error"}
                /\ calls[k].method = mergeMethod
        /\ (calls[k].op = "approve" /\ calls[k].res # "pending")
             => /\ k < Len(calls)
                /\ calls[k + 1].op = "merge"
                /\ calls[k + 1].pr = calls[k].pr

\* The approve call failed and the merge call was issued with method squash.
C8_Witness ==
    /\ mergeMethod = "squash"
    /\ \E k \in 1..Len(calls) :
          /\ calls[k].op = "approve" /\ calls[k].res = "error"
          /\ calls[k + 1].op = "merge" /\ calls[k + 1].method = "squash"

StartupErrors ==
    {"GitHub token not found; set the token parameter"}
    \cup { "Invalid auto-merge option: " \o v : v \in AutoMergeInputs }
    \cup { "Invalid merge method: " \o v : v \in MergeMethodInputs }

\* C9: a run that has made a remote call has a token, a threshold among major,
\* minor, patch and a merge method among merge, squash, rebase; a run that
\* reported a start-up error is in the failure state and has made no remote
\* call.
C9_StartupErrorIsFatal ==
    /\ (calls # <<>> \/ pc \notin {"start", "failed"})
         => /\ token \notin {Null, ""}
            /\ autoMerge \in {"major", "minor", "patch"}
            /\ mergeMethod \in {"merge", "squash", "rebase"}
    /\ setFailed \in StartupErrors => (pc = "failed" /\ calls = <<>>)

\* The run failed on the merge method fast-forward before any remote call.
C9_Witness ==
    /\ setFailed = "Invalid merge method: fast-forward"
    /\ pc = "failed"
    /\ calls = <<>>

\* The title has no "from " marker or no " to " marker, or a version token
\* extracted from it is empty or no valid version.
Unparseable(title) ==
    \/ IndexOf(title, "from ") = 0
    \/ IndexOf(title, " to ") = 0
    \/ VersionToken(title, "from ") = ""
    \/ VersionToken(title, " to ") = ""
    \/ ~ParseVersion(VersionToken(title, "from ")).ok
    \/ ~ParseVersion(VersionToken(title, " to ")).ok

\* C10: getSemver never raises into run(), it returns null for an unparseable
\* title, and a finished green pull request with such a title was approved
\* under every threshold.
C10_UnparseableIsNone ==
    /\ setFailed # "getSemver failed"
    /\ (pc = "approve_wait" /\ Unparseable(prTitle)) => versionBump = Null
    /\ \A j \in 1..Len(pullRequests) :
          (Finished(j) /\ Green(pullRequests[j]) /\ Unparseable(pullRequests[j].title))
          => Issued("approve", pullRequests[j].number)

\* Under threshold patch, a pull request whose title has no "from " marker is
\* being approved with bump null.
C10_Witness ==
    /\ pc = "approve_wait"
    /\ autoMerge = "patch"
    /\ IndexOf(prTitle, "from ") = 0
    /\ versionBump = Null


\* The calls made for the pull request with number n.
CallsFor(n) == { k \in 1..Len(calls) : calls[k].op # "list" /\ calls[k].pr = n }

\* C11: every signal fetch, approve call and merge call is for an open pull
\* request whose author login is the configured pr-author, which is
\* dependabot[bot] unless the input names another one; an open pull request
\* of another author or of no author has received no call.
C11_OnlyConfiguredAuthor ==
    /\ calls # <<>> => prAuthor \in {"dependabot[bot]"} \cup (PrAuthorInputs \ {""})
    /\ \A k \in 1..Len(calls) :
          calls[k].op # "list"
          => /\ \E i \in 1..Len(openPRs) : openPRs[i].number = calls[k].pr
             /\ PRByNumber(calls[k].pr).login = prAuthor
    /\ \A i \in 1..Len(openPRs) :
          openPRs[i].login # prAuthor => CallsFor(openPRs[i].number) = {}

\* A finished pass for dependabot[bot] over a green pull request of no author
\* and a green one of dependabot: only the second one was fetched and merged.
C11_Witness ==
    /\ pc = "done"
    /\ prAuthor = "dependabot[bot]"
    /\ Len(openPRs) = 2
    /\ openPRs[1].login = Null
    /\ Green(openPRs[1])
    /\ CallsFor(openPRs[1].number) = {}
    /\ openPRs[2].login = "dependabot[bot]"
    /\ Issued("merge", openPRs[2].number)


\* Index in calls of the list call of the pass under way.
PassStart == CHOOSE k \in 1..Len(calls) :
                 calls[k].op = "list" /\ \A m \in (k + 1)..Len(calls) : calls[m].op # "list"

Listed(n) == \E i \in 1..Len(openPRs) : openPRs[i].number = n

\* C12: a call of a pass, other than the list call, is for a pull request of
\* the listing that pass was given; hence a pull request merged successfully
\* in an earlier pass and no longer listed receives no signal fetch, approve
\* or merge call in the pass after it.
C12_MergedAndGoneIsLeftAlone ==
    (calls # <<>> /\ calls[PassStart].res = "ok")
    => /\ \A m \in (PassStart + 1)..Len(calls) : Listed(calls[m].pr)
       /\ \A k \in 1..(PassStart - 1) :
             (calls[k].op = "merge" /\ calls[k].res = "ok" /\ ~Listed(calls[k].pr))
             => \A m \in (PassStart + 1)..Len(calls) : calls[m].pr # calls[k].pr

\* A second pass is over: the first pass merged one pull request and failed
\* to merge the other one; the second pass was listed the other one only,
\* merged it and made no call for the first one.
C12_Witness ==
    /\ pc = "done"
    /\ PassStart > 1
    /\ calls[PassStart].res = "ok"
    /\ Len(openPRs) = 1
    /\ \E k \in 1..(PassStart - 1) :
          /\ calls[k].op = "merge" /\ calls[k].res = "ok"
          /\ ~Listed(calls[k].pr)
          /\ \A m \in (PassStart + 1)..Len(calls) : calls[m].pr # calls[k].pr
    /\ \E k \in 1..(PassStart - 1) :
          /\ calls[k].op = "merge" /\ calls[k].res = "error"
          /\ Listed(calls[k].pr)
    /\ \E m \in (PassStart + 1)..Len(calls) :
          calls[m].op = "merge" /\ calls[m].res = "ok"


\* C13: for a finished pull request, an empty list of check runs lets the
\* statuses be fetched, and with green check runs and an empty list of
\* statuses the pull request whose bump the decision table lets through was
\* approved and merged; so was one with both lists empty.
C13_EmptyListsPass ==
    \A j \in 1..Len(pullRequests) :
        LET pr == pullRequests[j]
            bump == getSemver(pr.title)
        IN  Finished(j)
            => /\ SignalsFor(pr).check_runs = <<>> => Issued("statuses", pr.number)
               /\ (/\ ChecksGreen(pr)
                   /\ SignalsFor(pr).statuses = <<>>
                   /\ bump \in {"major", "minor", "patch", Null}
                   /\ DecisionTable(bump, autoMerge))
                  => /\ Issued("approve", pr.number)
                     /\ Issued("merge", pr.number)

\* Under threshold minor the minor bump with no check runs and no statuses at
\* all was approved and merged.
C13_Witness ==
    /\ pc = "done"
    /\ autoMerge = "minor"
    /\ pullRequests[1].title = MkTitle("a", "1.2.3", "1.3.0")
    /\ SignalsFor(pullRequests[1]) = Signals(<<>>, <<>>)
    /\ Issued("approve", pullRequests[1].number)
    /\ Issued("merge", pullRequests[1].number)


\* C14: with the auto-merge input empty or minor, the pull request the loop
\* has just finished, when green and with a bump among major, minor, patch
\* and none, was approved and merged exactly if the decision table for the
\* threshold minor says so; with the merge-method input empty every merge call
\* has method merge, and otherwise every merge call has the method of the
\* input.
C14_DefaultsApply ==
    /\ (autoMergeInput \in {"", "minor"} /\ Finished(idx - 1))
         => LET pr == pullRequests[idx - 1]
                bump == getSemver(pr.title)
            IN  (Green(pr) /\ bump \in {"major", "minor", "patch", Null})
                => IF DecisionTable(bump, "minor")
                   THEN Issued("approve", pr.number) /\ Issued("merge", pr.number)
                   ELSE ~Acted(pr.number)
    /\ \A k \in 1..Len(calls) :
          calls[k].op = "merge"
          => /\ mergeMethodInput = "" => calls[k].method = "merge"
             /\ mergeMethodInput # "" => calls[k].method = mergeMethodInput

\* A pass with both inputs unset is over: the green major bump was held
\* back and the minor bump was merged with method merge.
C14_Witness ==
    /\ pc = "done"
    /\ autoMergeInput = ""
    /\ mergeMethodInput = ""
    /\ Len(pullRequests) = 2
    /\ pullRequests[1].title = MkTitle("react", "17.0.0", "18.0.0")
    /\ Green(pullRequests[1])
    /\ ~Acted(pullRequests[1].number)
    /\ pullRequests[2].title = MkTitle("a", "1.2.3", "1.3.0")
    /\ \E k \in 1..Len(calls) :
          /\ calls[k].op = "merge" /\ calls[k].pr = pullRequests[2].number
          /\ calls[k].method = "merge"


\* s begins with the text p.
HasPrefix(s, p) == Len(s) >= Len(p) /\ SubSeq(s, 1, Len(p)) = p

\* The lines info() printed while pull request pr was the one in the loop:
\* the positions in console after its "Processing PR" line and before the
\* next such line.
LinesOf(pr) ==
    { k \in 1..Len(console) :
        \E h \in 1..(k - 1) :
            /\ console[h] = ProcessingLine(pr)
            /\ \A m \in (h + 1)..k : ~HasPrefix(console[m], "Processing PR ") }

\* The outcome a printed line stands for, read as generously as the text
\* allows: "Approve and merge" stands for a merge that succeeded when no
\* "Merge failed" line follows it for the same pull request.
OutcomeOfLine(pr, k) ==
    IF console[k] \in {"All checks did not succeed", "All statuses did not succeed"}
    THEN "skipped-signals-red"
    ELSE IF HasPrefix(console[k], "Not merging ") THEN "skipped-by-policy"
    ELSE IF HasPrefix(console[k], "Merge failed: ") THEN "merge-attempted-failure"
    ELSE IF /\ console[k] = "Approve and merge"
            /\ \A m \in LinesOf(pr) : ~HasPrefix(console[m], "Merge failed: ")
    THEN "merge-attempted-success"
    ELSE "no outcome"

OutcomeLines(pr) == { k \in LinesOf(pr) : OutcomeOfLine(pr, k) # "no outcome" }

\* What happened to pull request pr, by the log of remote calls.
Happened(pr) ==
    IF \E k \in 1..Len(calls) :
          calls[k].op = "merge" /\ calls[k].pr = pr.number /\ calls[k].res = "ok"
    THEN "merge-attempted-success"
    ELSE IF \E k \in 1..Len(calls) :
          calls[k].op = "merge" /\ calls[k].pr = pr.number /\ calls[k].res = "error"
    THEN "merge-attempted-failure"
    ELSE IF ~Green(pr) THEN "skipped-signals-red"
    ELSE "skipped-by-policy"

PassEnded == pc \in {"done", "failed"} /\ calls # <<>> /\ calls[1].res = "ok"

\* C15: when a pass has ended, every candidate pull request has exactly one
\* outcome among skipped-signals-red, skipped-by-policy,
\* merge-attempted-success and merge-attempted-failure on record, and it is
\* what happened to it.  run() returns nothing; the record is looked for in
\* the lines it printed.
C15_OneOutcomePerCandidate ==
    PassEnded
    => \A j \in 1..Len(pullRequests) :
          /\ Cardinality(OutcomeLines(pullRequests[j])) = 1
          /\ \A k \in OutcomeLines(pullRequests[j]) :
                OutcomeOfLine(pullRequests[j], k) = Happened(pullRequests[j])


\* The number of calls op made for the pull request with number n.
CallCount(op, n) ==
    Cardinality({ k \in 1..Len(calls) : calls[k].op = op /\ calls[k].pr = n })

\* The calls for pull requests come in the order of pullRequests, the calls
\* for one pull request are all resolved before the first call for the next
\* one is issued, each pull request gets at most one call of each kind, and
\* when the loop is over each one has had its check runs fetched once.
HandledInOrderOnce ==
    /\ \A k \in 2..Len(calls), m \in 2..Len(calls) :
          k < m => /\ PositionOf(calls[k].pr) <= PositionOf(calls[m].pr)
                   /\ PositionOf(calls[k].pr) < PositionOf(calls[m].pr)
                        => calls[k].res # "pending"
    /\ \A j \in 1..Len(pullRequests) :
          /\ \A op \in {"checks", "statuses", "approve", "merge"} :
                CallCount(op, pullRequests[j].number) <= 1
          /\ pc = "done" => CallCount("checks", pullRequests[j].number) = 1
          /\ CallCount("checks", pullRequests[j].number) = 1 <=> j <= idx

\* C16: in a pass the pull requests are handled one after the other in the
\* order of the list, each once and with at most one approve and one merge
\* call; and a pass in which no call throws into run() comes to its end.
C16_InOrderOnceAndTerminates ==
    /\ []HandledInOrderOnce
    /\ [](setFailed = Null) => <>(pc = "done")

\* The pass over two candidates is over: each one was fetched, approved and
\* merged once, the first one before the second.
C16_Witness ==
    /\ pc = "done"
    /\ Len(pullRequests) = 2
    /\ \A j \in 1..2 :
          /\ CallCount("checks", pullRequests[j].number) = 1
          /\ CallCount("approve", pullRequests[j].number) = 1
          /\ CallCount("merge", pullRequests[j].number) = 1
    /\ Len(calls) = 9
    /\ calls[5].pr = pullRequests[1].number
    /\ calls[6].pr = pullRequests[2].number


\* The version carries a pre-release or a build-metadata suffix.
Suffixed(version) == IndexOf(version, "-") # 0 \/ IndexOf(version, "+") # 0

\* C17: the bump getSemver returned is major, minor, patch or none (null);
\* and for a title announcing a change from X to Y, valid versions of which
\* one at least is suffixed and whose major, minor or patch components
\* differ, it is the first component that differs.
C17_BumpIsOneOfFour ==
    pc = "approve_wait"
    => /\ versionBump \in {"major", "minor", "patch", Null}
       /\ \A x \in VersionTokens, y \in VersionTokens, sfx \in TitleSuffixes :
             (/\ prTitle = MkTitle("dep", x, y) \o sfx
              /\ Suffixed(x) \/ Suffixed(y)
              /\ ParseVersion(x).ok /\ ParseVersion(y).ok
              /\ Magnitude(ParseVersion(x), ParseVersion(y)) > 0)
             => versionBump =
                  (CASE Magnitude(ParseVersion(x), ParseVersion(y)) = 3 -> "major"
                     [] Magnitude(ParseVersion(x), ParseVersion(y)) = 2 -> "minor"
                     [] Magnitude(ParseVersion(x), ParseVersion(y)) = 1 -> "patch")

\* C18: the calls for a pull request are the fetch of its check runs, then
\* the fetch of its statuses, then approve, then merge, each made right after
\* the one before it has returned: the statuses only when all check runs are
\* green, approve only when the statuses are green too and the bump is not
\* held back by the threshold.  A finished pull request with a check run that
\* is not green has had exactly one call.
C18_StagesInOrder ==
    /\ \A k \in 1..Len(calls) :
          /\ calls[k].op = "checks" => CallsFor(calls[k].pr) \cap (1..(k - 1)) = {}
          /\ calls[k].op = "statuses"
               => /\ calls[k - 1].op = "checks"
                  /\ calls[k - 1].pr = calls[k].pr
                  /\ calls[k - 1].res = "ok"
                  /\ ChecksGreen(PRByNumber(calls[k].pr))
          /\ calls[k].op = "approve"
               => /\ calls[k - 1].op = "statuses"
                  /\ calls[k - 1].pr = calls[k].pr
                  /\ calls[k - 1].res = "ok"
                  /\ Green(PRByNumber(calls[k].pr))
                  /\ LET bump == getSemver(PRByNumber(calls[k].pr).title)
                     IN  /\ bump = "major" => autoMerge = "major"
                         /\ bump = "minor" => autoMerge \in {"major", "minor"}
          /\ calls[k].op = "merge"
               => /\ calls[k - 1].op = "approve"
                  /\ calls[k - 1].pr = calls[k].pr
                  /\ calls[k - 1].res # "pending"
    /\ \A j \in 1..Len(pullRequests) :
          (Finished(j) /\ ~ChecksGreen(pullRequests[j]))
          => /\ Cardinality(CallsFor(pullRequests[j].number)) = 1
             /\ Issued("checks", pullRequests[j].number)

\* The pass over a pull request with check runs [success, pending] is over
\* after the list call and a single call for the pull request.
C18_Witness ==
    /\ pc = "done"
    /\ SignalsFor(pullRequests[1]).check_runs = <<"success", "pending">>
    /\ Len(calls) = 2
    /\ calls[2].op = "checks"
    /\ calls[2].pr = pullRequests[1].number
    /\ calls[2].res = "ok"

\* C19: a finished green pull request was left without approve and merge
\* exactly if getSemver returned major and the threshold is minor or patch,
\* or it returned minor and the threshold is patch; for every other value,
\* null, premajor, preminor, prepatch and prerelease among them, it was
\* approved and merged.
C19_HeldBackOnlyOnMajorOrMinor ==
    \A j \in 1..Len(pullRequests) :
        LET pr == pullRequests[j]
            bump == getSemver(pr.title)
        IN  (Finished(j) /\ Green(pr))
            => IF \/ (bump = "major" /\ autoMerge \in {"minor", "patch"})
                  \/ (bump = "minor" /\ autoMerge = "patch")
               THEN ~Acted(pr.number)
               ELSE Issued("approve", pr.number) /\ Issued("merge", pr.number)

\* Under threshold patch the change from 1.0.0-a to 2.0.0-a, for which
\* getSemver returns premajor, was approved and merged.
C19_Witness ==
    /\ pc = "done"
    /\ autoMerge = "patch"
    /\ pullRequests[1].title = MkTitle("dep", "1.0.0-a", "2.0.0-a")
    /\ getSemver(pullRequests[1].title) = "premajor"
    /\ Issued("approve", pullRequests[1].number)
    /\ Issued("merge", pullRequests[1].number)

=============================================================================
